---- MODULE Spec2Model ----
(***************************************************************************)
(* Sandboxed command-execution pipeline of remote-testing-tools:           *)
(* the bounded-concurrency TaskQueue (a p-queue wrapper), and the          *)
(* POST /gemini/ask handler that runs the gemini CLI inside a disposable   *)
(* temporary directory.                                                    *)
(*                                                                         *)
(* The repository holds two implementations of the route:                  *)
(*   "packages"  src/packages/server/src/routes/gemini.ts                  *)
(*               (execa is started and the subprocess is returned from the *)
(*               try block without being awaited; finally runs rm)         *)
(*   "modules"   src/unnamed/part_010 and src/modules/server/openapi.json  *)
(*               (attachments are written, execa is awaited inside the     *)
(*               try block; finally runs rm)                               *)
(* The variable `route` says which one serves the requests.                *)
(*                                                                         *)
(* One action is one turn of the node event loop: the completion of an     *)
(* awaited operation together with all the synchronous code and microtasks *)
(* that follow it, up to the next await of an I/O operation.               *)
(*                                                                         *)
(* A request and the locals of its handler are discarded once the request  *)
(* is answered.  `last` is the answer sent in the step that led to the     *)
(* current state, with the handler state it was sent from; it is empty     *)
(* after a step that answers no request.                                   *)
(***************************************************************************)
EXTENDS Integers, Sequences, FiniteSets, TLC

\* ------------------------------------------------------------------ bounds
MaxReqs == 3
MaxConcurrency == 2
MaxFiles == 1

\* ------------------------------------------------------- program constants
\* `execaError.exitCode || 1`
FallbackExitCode == 1
\* exit codes the tool is let to end with (0 and "command not found")
ToolExitCodes == {0, 127}
\* the directory-name prefix handed to mkdtemp
Prefix == "gemini-"
\* killSignal of the execa call
KillSignal == "SIGTERM"

Reqs == 1..MaxReqs
Routes == {"packages", "modules"}
\* names mkdtemp can produce: the prefix followed by a generated suffix
DirNames == {<<Prefix, n>> : n \in Reqs}
\* `let tempDir: string | undefined` before mkdtemp has returned
NoDir == <<>>

VARIABLES
  route,        \* which implementation of the route is deployed
  concurrency,  \* PQueue concurrency given to the TaskQueue constructor
  queue,        \* PQueue: jobs waiting for a slot, in queue order
  slots,        \* PQueue: jobs started and not yet settled (#pending = size)
  inv,          \* per request: the state of its handler (see Idle)
  fs,           \* scratch root: names of the existing gemini- directories
  last          \* the answer just sent: request, reply, handler state

\* The data of one request on its way through the handler (see the section
\* "request data" below); not tracked while the queue is explored.
VARIABLES
  impl,         \* the source file whose handler serves the request
  body,         \* request.body
  run,          \* the handler's locals and what it has done so far
  disk,         \* the scratch root: directories and files with their bytes
  response      \* the HTTP response sent

\* The start of the server process (see the section "startup" below); not
\* followed while requests are served.
VARIABLES
  boot          \* the entry point, the configuration and how far the start is

queueVars == <<route, concurrency, queue, slots, inv, fs, last>>
dataVars == <<impl, body, run, disk, response>>
vars == <<route, concurrency, queue, slots, inv, fs, last,
          impl, body, run, disk, response, boot>>

\* ------------------------------------------------------------ task outcomes
\* A settled promise: kind "value" (execa result) or "error" (rejection).
\*   inProp  : 'exitCode' in error
\*   hasCode : the exitCode property holds a number (not undefined)
\*   of      : the request whose task produced the object
NoOutcome == [kind |-> "none", what |-> "none", inProp |-> FALSE,
              hasCode |-> FALSE, exitCode |-> 0, of |-> 0]

ExitValue(r) ==
  [kind |-> "value", what |-> "exit", inProp |-> TRUE, hasCode |-> TRUE,
   exitCode |-> 0, of |-> r]

ExitError(r, code) ==
  [kind |-> "error", what |-> "exit", inProp |-> TRUE, hasCode |-> TRUE,
   exitCode |-> code, of |-> r]

TimeoutError(r) ==
  [kind |-> "error", what |-> "timeout", inProp |-> TRUE, hasCode |-> FALSE,
   exitCode |-> 0, of |-> r]

StartError(r, withProp) ==
  [kind |-> "error", what |-> "start", inProp |-> withProp,
   hasCode |-> FALSE, exitCode |-> 0, of |-> r]

\* (variant: file-system errors carry an exitCode property)
FsError_WithExitCode(r, op) ==
  [kind |-> "error", what |-> op, inProp |-> TRUE, hasCode |-> FALSE,
   exitCode |-> 0, of |-> r]

\* what mkdtemp, writeFile and rm reject with: no exitCode property
FsError(r, op) ==
  [kind |-> "error", what |-> op, inProp |-> FALSE, hasCode |-> FALSE,
   exitCode |-> 0, of |-> r]

\* (variant: the result of a successful run goes to the next request)
ExecaExit_Crossed(r, code) ==
  IF code = 0 THEN ExitValue((r % MaxReqs) + 1) ELSE ExitError(r, code)

\* what execa settles with when the child exits with `code`
ExecaExit(r, code) == IF code = 0 THEN ExitValue(r) ELSE ExitError(r, code)

\* ------------------------------------------------------------- HTTP replies
NoResponse == [status |-> 0, exitCode |-> 0, hasExit |-> FALSE,
               error |-> FALSE, of |-> 0]

\* (variant: the invalid prompt is answered as a server error)
BadRequest_ServerError(r) == [status |-> 500, exitCode |-> 0,
                              hasExit |-> FALSE, error |-> TRUE, of |-> r]

\* reply.status(400).send({ error: 'Prompt is required ...' })
BadRequest(r) == [status |-> 400, exitCode |-> 0, hasExit |-> FALSE,
                  error |-> TRUE, of |-> r]

\* (variant: the exit code of the error is reported as it is)
ReportedExitCode_Observed(o) == o.exitCode

\* (variant: the fallback is reported whatever the error holds)
ReportedExitCode_Fallback(o) == FallbackExitCode

\* `execaError.exitCode || 1`
ReportedExitCode(o) ==
  IF o.hasCode /\ o.exitCode # 0 THEN o.exitCode ELSE FallbackExitCode

\* The code after `await defaultQueue.add(...)` and its catch block.
Reply(o) ==
  IF o.kind = "value"
  THEN [status |-> 200, exitCode |-> o.exitCode, hasExit |-> TRUE,
        error |-> FALSE, of |-> o.of]
  ELSE IF o.inProp
  THEN [status |-> 200,
        exitCode |-> ReportedExitCode(o),
        hasExit |-> TRUE, error |-> TRUE, of |-> o.of]
  ELSE [status |-> 500, exitCode |-> 0, hasExit |-> FALSE,
        error |-> TRUE, of |-> o.of]

\* --------------------------------------------------------- handler state
\*   pc           where the handler is suspended
\*   files        attachments of the request not written yet
\*   written      attachments written so far
\*   tempDir      the task's tempDir variable
\*   proc         state of the gemini child process
\*   signal       signal sent to the child process, if any
\*   outcome      what the task body is going to return or throw
\*   mkdtempCalls calls of mkdtemp        created  directories it created
\*   rmCalls      calls of rm             rmArg    path given to rm
\*   rmResult     "none", "ok" or "failed" (a warning is logged)
\*   rmEarly      rm was called while the child was running
Idle ==
  [pc |-> "idle", files |-> 0, written |-> 0, tempDir |-> NoDir,
   proc |-> "none", signal |-> "none", outcome |-> NoOutcome,
   mkdtempCalls |-> 0, created |-> 0, rmCalls |-> 0, rmArg |-> NoDir,
   rmResult |-> "none", rmEarly |-> FALSE]

\* the request has been answered and is discarded
Answered == [Idle EXCEPT !.pc = "done"]

NoLast == [req |-> 0, reply |-> NoResponse, inv |-> Idle, next |-> {}]

\* what `last` keeps of the handler state l: the request data and the
\* directory name are left out
Kept(l) == [l EXCEPT !.files = 0, !.written = 0, !.tempDir = NoDir,
                     !.rmArg = NoDir]

\* ------------------------------------------------------------------ PQueue
\* (variant: off by one, a job is let in when all slots are taken)
doesConcurrentAllowAnother_OffByOne(p, c) == p <= c

\* pending < concurrency
doesConcurrentAllowAnother(p, c) == p < c

\* the index of the job PQueue takes next: the queue is FIFO among jobs of
\* equal priority, and TaskQueue.add never gives a priority
\* (variant: the job added last is started first)
DequeueIndex_Lifo(q) == Len(q)

\* PQueue's dequeue: all jobs have priority 0, the first one is taken
DequeueIndex(q) == 1

\* (variant: a job that is started stays in the queue)
RemoveAt_Keeps(q, i) == q

\* the queue without its i-th job
RemoveAt(q, i) == SubSeq(q, 1, i - 1) \o SubSeq(q, i + 1, Len(q))

\* (variant: a job is started only while a second slot is free)
TryToStartAnother_KeepsSpare(q, s) ==
  IF q # <<>> /\ doesConcurrentAllowAnother(Cardinality(s) + 1, concurrency)
  THEN [queue |-> RemoveAt(q, DequeueIndex(q)),
        slots |-> s \cup {q[DequeueIndex(q)]},
        job   |-> {q[DequeueIndex(q)]}]
  ELSE [queue |-> q, slots |-> s, job |-> {}]

\* PQueue's "try to start another": start the next job when a slot is free
TryToStartAnother(q, s) ==
  IF q # <<>> /\ doesConcurrentAllowAnother(Cardinality(s), concurrency)
  THEN [queue |-> RemoveAt(q, DequeueIndex(q)),
        slots |-> s \cup {q[DequeueIndex(q)]},
        job   |-> {q[DequeueIndex(q)]}]
  ELSE [queue |-> q, slots |-> s, job |-> {}]

\* (variant: no waiting job is started when a job settles)
StartNextOnSettle_Never(q, s) == [queue |-> q, slots |-> s, job |-> {}]

\* PQueue's next(), run when a job settles: the slot being free again, the
\* next waiting job is started
StartNextOnSettle(q, s) == TryToStartAnother(q, s)

\* (variant: a job that failed keeps its slot)
SlotsAfterSettle_FailedKeepsSlot(s, r, o) ==
  IF o.kind = "error" THEN s ELSE s \ {r}

\* the slots after the job of request r has settled with outcome o
SlotsAfterSettle(s, r, o) == s \ {r}

\* ------------------------------------------------------------- task body
\* mkdtemp(join(tmpdir(), 'gemini-')) called by request r: the names it can
\* return, each the prefix and a generated suffix, none of them existing.
\* A generated name matters only through the names it is equal to, so a
\* name no handler refers to is represented by the one numbered r, and the
\* other candidates are the names that handlers still hold although the
\* directory is gone.
Mkdtemp(r, existing, held) ==
  ({<<Prefix, r>>} \cup (held \ {NoDir})) \ existing

\* (variant: the test of the finally block inverted)
CleanupNeeded_Inverted(d) == d = NoDir

\* `if (tempDir)` in the finally block
CleanupNeeded(d) == d # NoDir

\* (variant: no inner try/catch, the cleanup error leaves the finally block)
AfterCleanup_Throws(o, rmOk) == IF rmOk THEN o ELSE FsError(o.of, "rm")

\* what the task settles with once the finally block is through: the
\* cleanup error is caught and logged, the pending outcome stays
AfterCleanup(o, rmOk) == o

\* (variant: rm leaves the directory in place and reports success)
Rm_KeepsDirectory(existing, d, ok) == existing

\* rm(d, { recursive: true, force: true }): the directories existing
\* afterwards; a call that fails leaves the directory in place
Rm(existing, d, ok) == IF ok THEN existing \ {d} ELSE existing

\* (variant: the task's promise is settled as soon as rm has returned)
SettlesOnRmReturn_Always(rt, p) == TRUE

\* When rm has returned: is the task's promise settled now?  In "modules"
\* the try block awaited execa; in "packages" the async function returned
\* the subprocess (a thenable), so its promise follows the subprocess.
SettlesOnRmReturn(rt, p) == rt = "modules" \/ p # "running"

\* The task body starts: it runs up to `await mkdtemp(...)`.
StartTask(l) == [l EXCEPT !.pc = "mkdtemp", !.mkdtempCalls = @ + 1]

\* The finally block is through (rm has returned, or was not needed) and
\* the task body is left with outcome o.  pc "settled": the task's promise
\* is settled in this very step.
AfterFinally(l, o) ==
  [l EXCEPT !.outcome = o, !.rmArg = NoDir,
            !.pc = IF SettlesOnRmReturn(route, l.proc) THEN "settled"
                   ELSE "awaitProc"]

\* The try block is left with outcome o (returned value or thrown error)
\* and the finally block is entered.
Finally(l, o) ==
  IF CleanupNeeded(l.tempDir)
  THEN [l EXCEPT !.pc = "rm", !.rmCalls = @ + 1, !.rmArg = l.tempDir,
                 !.rmEarly = (l.proc = "running"), !.outcome = o]
  ELSE AfterFinally(l, o)

\* How the start of the child can go: it starts, or execa rejects with an
\* error that has no exitCode property, or with one that has the property
\* (holding undefined).
Spawns == {"ok", "error", "errorWithExitCode"}

\* execa('gemini', ...) with cwd tempDir, the start going as sp says.
Execa(l, r, sp) ==
  LET l1 == [l EXCEPT !.proc = IF sp = "ok" THEN "running" ELSE "failed"]
      e  == StartError(r, sp = "errorWithExitCode") IN
  IF route = "modules"
  THEN IF sp = "ok" THEN [l1 EXCEPT !.pc = "exec"] ELSE Finally(l1, e)
  ELSE Finally(l1, IF sp = "ok" THEN NoOutcome ELSE e)

\* The child has ended (l.proc says how) and execa's promise settles with o.
ExecaSettles(l, o) ==
  IF l.pc = "exec" THEN Finally(l, o)
  ELSE IF l.pc = "awaitProc" THEN [l EXCEPT !.outcome = o, !.pc = "settled"]
  ELSE [l EXCEPT !.outcome = o]

\* ---------------------------------------------------------------- steps
\* The job of request r settles, its handler state being l: PQueue gives
\* the slot back and starts the next waiting job, add()'s promise settles
\* and the handler replies.
Settle(r, l) ==
  LET t == StartNextOnSettle(queue,
                             SlotsAfterSettle(slots, r, l.outcome)) IN
  /\ queue' = t.queue
  /\ slots' = t.slots
  /\ inv' = [x \in Reqs |-> IF x = r THEN Answered
                            ELSE IF x \in t.job THEN StartTask(inv[x])
                            ELSE inv[x]]
  /\ last' = [req |-> r, reply |-> Reply(l.outcome), inv |-> Kept(l),
              next |-> t.job]

\* The step of request r ends with handler state l.
Commit(r, l) ==
  IF l.pc = "settled"
  THEN Settle(r, l)
  ELSE /\ inv' = [inv EXCEPT ![r] = l]
       /\ last' = NoLast
       /\ UNCHANGED <<queue, slots>>

\* ----------------------------------------------------------------- actions
\* the next request arrives; requests are numbered in arrival order
IsNext(r) == inv[r].pc = "idle" /\ \A x \in Reqs : x < r => inv[x].pc # "idle"

\* POST /gemini/ask with a valid prompt and n attachments:
\* defaultQueue.add(task)
Submit(r, n) ==
  /\ IsNext(r)
  /\ LET t == TryToStartAnother(Append(queue, r), slots)
         l == [inv[r] EXCEPT !.pc = "queued", !.files = n] IN
     /\ queue' = t.queue
     /\ slots' = t.slots
     /\ inv' = [x \in Reqs |->
                  IF x \in t.job
                  THEN StartTask(IF x = r THEN l ELSE inv[x])
                  ELSE IF x = r THEN l ELSE inv[x]]
  /\ last' = NoLast
  /\ UNCHANGED <<route, concurrency, fs>>
  /\ UNCHANGED dataVars
  /\ UNCHANGED boot

\* POST /gemini/ask with a missing, non-string or blank prompt
BadPrompt(r) ==
  /\ IsNext(r)
  /\ inv' = [inv EXCEPT ![r] = Answered]
  /\ last' = [req |-> r, reply |-> BadRequest(r), inv |-> Kept(inv[r]),
              next |-> {}]
  /\ UNCHANGED <<route, concurrency, queue, slots, fs>>
  /\ UNCHANGED dataVars
  /\ UNCHANGED boot

\* mkdtemp returns a new directory
MkdtempOk(r, d, sp) ==
  /\ inv[r].pc = "mkdtemp"
  /\ d \in Mkdtemp(r, fs, {inv[x].tempDir : x \in Reqs \ {r}})
  /\ LET l == [inv[r] EXCEPT !.tempDir = d, !.created = @ + 1] IN
     /\ fs' = fs \cup {d}
     /\ Commit(r, IF route = "modules" /\ l.files > 0
                  THEN [l EXCEPT !.pc = "write"]
                  ELSE Execa(l, r, sp))
  /\ UNCHANGED <<route, concurrency>>
  /\ UNCHANGED dataVars
  /\ UNCHANGED boot

\* mkdtemp fails: tempDir stays undefined
MkdtempFail(r) ==
  /\ inv[r].pc = "mkdtemp"
  /\ Commit(r, Finally(inv[r], FsError(r, "mkdtemp")))
  /\ UNCHANGED <<route, concurrency, fs>>
  /\ UNCHANGED dataVars
  /\ UNCHANGED boot

\* writeFile of the next attachment returns
WriteOk(r, sp) ==
  /\ inv[r].pc = "write"
  /\ LET l == [inv[r] EXCEPT !.written = @ + 1, !.files = @ - 1] IN
     Commit(r, IF l.files > 0 THEN l
               ELSE Execa(l, r, sp))
  /\ UNCHANGED <<route, concurrency, fs>>
  /\ UNCHANGED dataVars
  /\ UNCHANGED boot

\* writeFile of the next attachment fails
WriteFail(r) ==
  /\ inv[r].pc = "write"
  /\ Commit(r, Finally(inv[r], FsError(r, "write")))
  /\ UNCHANGED <<route, concurrency, fs>>
  /\ UNCHANGED dataVars
  /\ UNCHANGED boot

\* the gemini process exits with `code`
ProcExit(r, code) ==
  /\ inv[r].proc = "running"
  /\ Commit(r, ExecaSettles([inv[r] EXCEPT !.proc = "exited"],
                            ExecaExit(r, code)))
  /\ UNCHANGED <<route, concurrency, fs>>
  /\ UNCHANGED dataVars
  /\ UNCHANGED boot

\* (variant: the deadline counts from the moment the request is admitted)
DeadlineCounts_FromAdmission(l) ==
  l.pc \notin {"idle", "done"} /\ l.proc \in {"none", "running"}

\* the `timeout` option belongs to the execa call: the deadline of handler
\* state l counts while its child runs
DeadlineCounts(l) == l.proc = "running"

\* the 30000 ms timeout of the execa call elapses: the child is killed
Timeout(r) ==
  /\ DeadlineCounts(inv[r])
  /\ Commit(r, ExecaSettles([inv[r] EXCEPT !.proc = "killed",
                                           !.signal = KillSignal],
                            TimeoutError(r)))
  /\ UNCHANGED <<route, concurrency, fs>>
  /\ UNCHANGED dataVars
  /\ UNCHANGED boot

\* rm(tempDir, { recursive, force }) returns, successfully or not
RmReturn(r, ok) ==
  /\ inv[r].pc = "rm"
  /\ fs' = Rm(fs, inv[r].rmArg, ok)
  /\ Commit(r, AfterFinally(
                 [inv[r] EXCEPT !.rmResult = IF ok THEN "ok" ELSE "failed"],
                 AfterCleanup(inv[r].outcome, ok)))
  /\ UNCHANGED <<route, concurrency>>
  /\ UNCHANGED dataVars
  /\ UNCHANGED boot

\* ----------------------------------------------------------------- startup
\* The start of the server process.  Loading lib/config reads the
\* configuration from the command line and the environment and constructs
\* the TaskQueue; then the entry point runs.  The repository holds two
\* entry points:
\*   "start"  src/modules/server/src/index.ts, lines 1-41
\*   "cli"    src/packages/server/src/lib/config.ts, lines 59-99
\* An option's text is a sequence of characters.  An entry of the scratch
\* root is a name <<leading characters, rest>>.

\* the most gemini- entries left in the scratch root by earlier processes
MaxStale == 2

\* entries an earlier server process left behind: names that no mkdtemp call
\* of this process is given
StaleNames == {<<Prefix, MaxReqs + n>> : n \in 1..MaxStale}
\* entries of other programs
OtherNames == {<<"gemini", 1>>, <<"notes-", 1>>}

\* (variant: the dash of the prefix is not required)
StartsWith_Loose(entry, p) == entry[1] \in {p, "gemini"}

\* entry.startsWith(p)
StartsWith(entry, p) == entry[1] = p

\* (variant: every entry of the scratch root is taken for a left-over)
geminiDirs_All(entries) == entries

\* entries.filter(entry => entry.startsWith('gemini-'))
geminiDirs(entries) == {e \in entries : StartsWith(e, Prefix)}

\* ---- configuration
Digits == <<"0", "1", "2", "3", "4", "5", "6", "7", "8", "9">>
IsDigit(c) == \E d \in 1..10 : Digits[d] = c
DigitValue(c) == (CHOOSE d \in 1..10 : Digits[d] = c) - 1

\* a number: NaN or an integer
NotANumber == [nan |-> TRUE, n |-> 0]
Number(n) == [nan |-> FALSE, n |-> n]

RECURSIVE ParseDigits(_, _, _)
\* the leading digits of t, read in base 10; NaN when there is none
ParseDigits(t, acc, seen) ==
  IF t = <<>> \/ ~IsDigit(Head(t))
  THEN IF seen THEN Number(acc) ELSE NotANumber
  ELSE ParseDigits(Tail(t), acc * 10 + DigitValue(Head(t)), TRUE)

RECURSIVE ParseInt(_)
\* parseInt(t, 10): leading blanks, an optional sign, the leading digits
ParseInt(t) ==
  IF t = <<>> THEN NotANumber
  ELSE IF Head(t) = " " THEN ParseInt(Tail(t))
  ELSE IF Head(t) = "-"
  THEN LET m == ParseDigits(Tail(t), 0, FALSE) IN [m EXCEPT !.n = 0 - @]
  ELSE IF Head(t) = "+" THEN ParseDigits(Tail(t), 0, FALSE)
  ELSE ParseDigits(t, 0, FALSE)

\* an option or environment variable: given with a text, or absent
Absent == [given |-> FALSE, text |-> <<>>]
Given(t) == [given |-> TRUE, text |-> t]

\* `process.env.X || d`: an unset or empty variable gives the default
EnvOr(e, d) == IF e.given /\ e.text # <<>> THEN e.text ELSE d

\* parseArgs: the option's value when given, its default otherwise
OptionValue(a, e, d) == IF a.given THEN a.text ELSE EnvOr(e, d)

\* serverConfig, from the command line argv and the environment env
serverConfig(argv, env) ==
  [maxConcurrentRequests |->
     ParseInt(OptionValue(argv.maxConcurrent, env.maxConcurrent, <<"5">>)),
   requestTimeout |->
     ParseInt(OptionValue(argv.requestTimeout, env.requestTimeout,
                          <<"3", "0", "0", "0", "0">>))]

\* `concurrency: number = 5`
DefaultConcurrency == 5
\* a constructor argument: passed or left out
NoArgument == [given |-> FALSE, n |-> 0]

\* new TaskQueue(c): the concurrency of its PQueue
TaskQueue(c) == IF c.given THEN c.n ELSE DefaultConcurrency

\* export const defaultQueue = new TaskQueue()
defaultQueue == TaskQueue(NoArgument)

\* `timeout: 30000` of the execa call, in milliseconds
ExecaTimeout == 30000

\* ---- the process
\*   entry      the entry point run
\*   argv, env  the options given on the command line and in the environment
\*   config     serverConfig
\*   pc         "off" (not followed), "readdir", "rm", "build", "listen",
\*              "listening", "exited"
\*   pass       cleanupOrphanedDirectories: "none", "running", "completed",
\*              "failed" (readdir threw)
\*   attempted  the entries rm was called on
\*   pending    the rm calls not yet returned
\*   failed     the entries whose rm failed
\*   threw      the call whose error reached the catch block of the entry
\*              point: "none", "cleanup", "buildApp", "listen"
NoBoot ==
  [entry |-> "none",
   argv |-> [maxConcurrent |-> Absent, requestTimeout |-> Absent],
   env |-> [maxConcurrent |-> Absent, requestTimeout |-> Absent],
   config |-> [maxConcurrentRequests |-> Number(DefaultConcurrency),
               requestTimeout |-> Number(ExecaTimeout)],
   pc |-> "off", pass |-> "none", attempted |-> {}, pending |-> {},
   failed |-> {}, threw |-> "none"]

\* the process is started by entry point e with options a and environment v
Boot(e, a, v) ==
  [NoBoot EXCEPT !.entry = e, !.argv = a, !.env = v,
                 !.config = serverConfig(a, v),
                 !.pc = IF e = "start" THEN "readdir" ELSE "build"]

\* (variant: a failure of the pass is thrown to the entry point)
AfterPass_Throws(b) ==
  IF b.failed # {} \/ b.pass = "failed" THEN "exited" ELSE "build"

\* cleanupOrphanedDirectories has returned: start() goes on with buildApp
AfterPass(b) == "build"

\* readdir(tmpdir()) returns: rm is called on every gemini- entry, or the
\* pass ends when there is none or when readdir failed
Readdir(ok) ==
  /\ boot.pc = "readdir"
  /\ LET found == geminiDirs(fs)
         none  == [boot EXCEPT !.pass = "completed"]
         threw == [boot EXCEPT !.pass = "failed"] IN
     boot' = IF ~ok THEN [threw EXCEPT !.pc = AfterPass(threw)]
             ELSE IF found = {} THEN [none EXCEPT !.pc = AfterPass(none)]
             ELSE [boot EXCEPT !.pc = "rm", !.pass = "running",
                               !.attempted = found, !.pending = found]
  /\ UNCHANGED <<route, concurrency, queue, slots, inv, fs, last>>
  /\ UNCHANGED dataVars

\* rm of the entry d returns, successfully or not; Promise.allSettled
\* resolves with the last one
OrphanRm(d, ok) ==
  /\ boot.pc = "rm"
  /\ d \in boot.pending
  /\ fs' = Rm(fs, d, ok)
  /\ LET b == [boot EXCEPT !.pending = @ \ {d},
                           !.failed = IF ok THEN @ ELSE @ \cup {d}]
         e == [b EXCEPT !.pass = "completed"] IN
     boot' = IF b.pending = {} THEN [e EXCEPT !.pc = AfterPass(e)] ELSE b
  /\ UNCHANGED <<route, concurrency, queue, slots, inv, last>>
  /\ UNCHANGED dataVars

\* buildApp(serverConfig) returns or throws
BuildApp(ok) ==
  /\ boot.pc = "build"
  /\ boot' = IF ok THEN [boot EXCEPT !.pc = "listen"]
             ELSE [boot EXCEPT !.pc = "exited", !.threw = "buildApp"]
  /\ UNCHANGED queueVars
  /\ UNCHANGED dataVars

\* app.listen returns or throws
Listen(ok) ==
  /\ boot.pc = "listen"
  /\ boot' = IF ok THEN [boot EXCEPT !.pc = "listening"]
             ELSE [boot EXCEPT !.pc = "exited", !.threw = "listen"]
  /\ UNCHANGED queueVars
  /\ UNCHANGED dataVars

EntryPoints == {"start", "cli"}
ConcurrentTexts == {<<"2">>, <<"5">>, <<"0">>, <<"-", "1">>, <<"a">>}
TimeoutTexts == {<<"1", "0", "0", "0">>}
Argvs ==
  [maxConcurrent : {Absent} \cup {Given(t) : t \in ConcurrentTexts},
   requestTimeout : {Absent} \cup {Given(t) : t \in TimeoutTexts}]
Envs ==
  [maxConcurrent : {Absent, Given(<<>>), Given(<<"3">>)},
   requestTimeout : {Absent, Given(<<"2", "0", "0", "0">>)}]

\* ------------------------------------------------------------ request data
\* One request followed through the handler with its data: the body, the
\* files written, the execa call, what the tool printed and the response.
\* Three source files hold a version of the handler:
\*   "gemini.ts"     src/packages/server/src/routes/gemini.ts
\*   "openapi.json"  src/modules/server/openapi.json, lines 262-428
\*   "part_010"      src/unnamed/part_010
\* A text is a sequence of pieces (strings); concatenating texts is \o.

\* the longest `files` array of a request
MaxAttachments == 2

Impls == {"gemini.ts", "openapi.json", "part_010"}

\* the control flow of the task body in the file
RouteOf(i) == IF i = "gemini.ts" THEN "packages" ELSE "modules"

\* the files the handler reads from the body: `files = []` when absent;
\* gemini.ts does not read the field
Files(b) == IF b.hasFiles THEN b.files ELSE <<>>

Attachments(i, b) == IF i = "gemini.ts" THEN <<>> ELSE Files(b)

\* !prompt || prompt.trim().length === 0
IsBlank(p) == \A k \in 1..Len(p) : p[k] \in {" ", "\n\n"}

\* ---- base64: a character is its 6-bit value, the padding '=' or a
\* character outside the alphabet
Pad == 64
Junk == 65

\* RFC 4648: groups of four characters, '=' only as the last one or two
IsBase64(t) ==
  /\ Len(t) % 4 = 0
  /\ \A k \in 1..Len(t) :
       /\ t[k] <= Pad
       /\ t[k] = Pad => k > Len(t) - 2 /\ \A j \in k..Len(t) : t[j] = Pad

\* the characters the decoder keeps: everything outside the alphabet is
\* skipped
Sextets(t) == SelectSeq(t, LAMBDA c : c < Pad)

RECURSIVE Bytes(_)
\* 4 sextets make 3 bytes, 3 make 2, 2 make 1, a single one is dropped
Bytes(s) ==
  IF Len(s) < 2 THEN <<>>
  ELSE LET b1 == s[1] * 4 + s[2] \div 16
           b2 == (s[2] % 16) * 16 + s[3] \div 4
           b3 == (s[3] % 4) * 64 + s[4] IN
       IF Len(s) = 2 THEN <<b1>>
       ELSE IF Len(s) = 3 THEN <<b1, b2>>
       ELSE <<b1, b2, b3>> \o Bytes(SubSeq(s, 5, Len(s)))

\* Buffer.from(data, 'base64'): never throws
Base64Decode(t) == Bytes(Sextets(t))

\* ---- paths: a path is the sequence of its segments
\* tmpdir()
TmpDir == <<"tmp">>
\* what mkdtemp returns to the request
OwnDir == <<"tmp", "gemini-1">>
\* the working directory of another invocation
OtherDir == <<"tmp", "gemini-2">>

RECURSIVE Normalize(_, _)
\* path.normalize: a '..' segment removes the segment before it
Normalize(done, rest) ==
  IF rest = <<>> THEN done
  ELSE IF Head(rest) = ".."
  THEN Normalize(IF done = <<>> THEN <<>>
                 ELSE SubSeq(done, 1, Len(done) - 1), Tail(rest))
  ELSE Normalize(Append(done, Head(rest)), Tail(rest))

\* path.join(dir, name)
Join(dir, name) == Normalize(<<>>, dir \o name)

Parent(path) == SubSeq(path, 1, Len(path) - 1)

\* the path lies below the directory
Within(path, dir) ==
  Len(path) > Len(dir) /\ SubSeq(path, 1, Len(dir)) = dir

RECURSIVE NameText(_)
\* a file name as it is written in a text
NameText(n) ==
  IF Len(n) <= 1 THEN n ELSE <<Head(n), "/">> \o NameText(Tail(n))

\* ---- the input of the tool
FilesLine == "Here are the user provided files for context: "

RECURSIVE FileRefs(_)
\* files.map(f => `@${f.fileName}`).join(' ')
FileRefs(fl) ==
  IF fl = <<>> THEN <<>>
  ELSE <<"@">> \o NameText(fl[1].fileName)
       \o (IF Len(fl) = 1 THEN <<>> ELSE <<" ">> \o FileRefs(Tail(fl)))

\* the reassignment of `prompt` after the attachments are written
Augmented(i, p, fl) ==
  IF i = "part_010" THEN <<FilesLine>> \o FileRefs(fl) \o <<"\n\n">> \o p
  ELSE p \o <<" ">> \o FileRefs(fl)

\* geminiArgs
GeminiArgs(i, b) ==
  IF i = "gemini.ts" THEN <<b.prompt>> \o b.args ELSE << <<"--sandbox">> >>

NoCall == [file |-> "none", args |-> <<>>, hasInput |-> FALSE,
           input |-> <<>>, cwd |-> NoDir, seen |-> {}]

\* execa('gemini', geminiArgs, { input: prompt, ..., cwd: tempDir }) by
\* handler state l, `present` being the files on disk at that moment
ExecaCall(i, b, l, present) ==
  [file |-> "gemini", args |-> GeminiArgs(i, b),
   hasInput |-> i # "gemini.ts",
   input |-> IF i # "gemini.ts" THEN l.prompt ELSE <<>>,
   cwd |-> l.tempDir, seen |-> present]

\* ---- outcomes with their data: base is the outcome as the queue sees it
WithData(base, out, err, msg) ==
  [base |-> base, stdout |-> out, stderr |-> err, message |-> msg]

NoData == WithData(NoOutcome, "", "", "")

ExitMessage == "Command failed with exit code"
TimeoutMessage == "Command timed out after 30000 milliseconds"
StartMessage == "spawn gemini ENOENT"
MkdtempMessage == "EACCES: permission denied, mkdtemp"
WriteMessage == "ENOSPC: no space left on device, write"
PromptMessage == "Prompt is required and must be a non-empty string"

Stdouts == {"", "pong"}
Stderrs == {"", "warning"}

\* ---- the response
NoBody == [status |-> 0, hasOutput |-> FALSE, output |-> "",
           hasExitCode |-> FALSE, exitCode |-> 0, hasStderr |-> FALSE,
           stderr |-> "", hasError |-> FALSE, error |-> ""]

\* (variant: the stderr field is always sent)
HasStderr_Always(err) == TRUE

\* `result.stderr || undefined`: an undefined field is not serialised
HasStderr(err) == err # ""

\* reply.send(response) after the await, and the catch block
Respond(o) ==
  LET r == Reply(o.base) IN
  IF o.base.kind = "value"
  THEN [NoBody EXCEPT !.status = r.status,
          !.hasOutput = TRUE, !.output = o.stdout,
          !.hasExitCode = TRUE, !.exitCode = r.exitCode,
          !.hasStderr = HasStderr(o.stderr),
          !.stderr = IF HasStderr(o.stderr) THEN o.stderr ELSE ""]
  ELSE IF o.base.inProp
  THEN [NoBody EXCEPT !.status = r.status,
          !.hasOutput = TRUE, !.output = o.stdout,
          !.hasExitCode = TRUE, !.exitCode = r.exitCode,
          !.hasStderr = HasStderr(o.stderr),
          !.stderr = IF HasStderr(o.stderr) THEN o.stderr ELSE "",
          !.hasError = TRUE, !.error = o.message]
  ELSE [NoBody EXCEPT !.status = r.status,
          !.hasError = TRUE, !.error = o.message]

\* ---- the handler's locals
\*   pc        "received", "mkdtemp", "write", "wait" (for the tool and/or
\*             rm), "done"
\*   prompt    the local `prompt`
\*   tempDir   the local `tempDir`
\*   attempted writeFile calls made
\*   written   the writeFile calls that succeeded: path and bytes
\*   call      the execa call made
\*   proc      the tool: "none", "running", "exited", "killed", "failed"
\*   code      the exit code of the tool, once it has exited
\*   out, err  what the tool wrote to stdout and stderr
\*   rm        the rm call: "none", "pending", "ok", "failed"
\*   outcome   what the task settles with
NoRun == [pc |-> "received", prompt |-> <<>>, tempDir |-> NoDir,
          attempted |-> 0, written |-> <<>>, call |-> NoCall,
          proc |-> "none", code |-> 0, out |-> "", err |-> "",
          rm |-> "none", outcome |-> NoData]

\* (variant: the finally block does not remove the directory)
Cleanup_Skipped(l, o) == [l EXCEPT !.pc = "wait", !.outcome = o]

\* the finally block is entered with outcome o: rm is called when tempDir
\* is set
Cleanup(l, o) ==
  IF CleanupNeeded(l.tempDir)
  THEN [l EXCEPT !.pc = "wait", !.outcome = o, !.rm = "pending"]
  ELSE [l EXCEPT !.pc = "wait", !.outcome = o]

\* execa is called, the start going as sp says.  In gemini.ts the
\* subprocess is returned and the finally block runs at once.
Launch(i, b, l, present, sp) ==
  LET l1 == [l EXCEPT !.pc = "wait", !.call = ExecaCall(i, b, l, present),
                      !.proc = IF sp = "ok" THEN "running" ELSE "failed"]
      e  == WithData(StartError(1, sp = "errorWithExitCode"), "", "",
                     StartMessage) IN
  IF sp # "ok" THEN Cleanup(l1, e)
  ELSE IF i = "gemini.ts" THEN Cleanup(l1, NoData)
  ELSE l1

\* the tool has ended with outcome o
ToolEnds(i, l, o) ==
  IF i = "gemini.ts" THEN [l EXCEPT !.outcome = o] ELSE Cleanup(l, o)

\* the task's promise is settled: nothing is awaited any more
IsSettled(l) ==
  l.pc = "wait" /\ l.outcome # NoData
  /\ l.rm # "pending" /\ l.proc # "running"

\* The step ends with handler state l: the response is sent when the task
\* has settled.
Finish(l) ==
  IF IsSettled(l)
  THEN run' = [l EXCEPT !.pc = "done"] /\ response' = Respond(l.outcome)
  ELSE run' = l /\ UNCHANGED response

\* writeFile(path, bytes) on the files of the disk
WriteFile(present, path, bytes) ==
  {x \in present : x.path # path} \cup {[path |-> path, bytes |-> bytes]}

\* rm(d, { recursive: true, force: true }) on the disk
RmTree(dk, d, ok) ==
  IF ok THEN [dirs |-> Rm(dk.dirs, d, ok),
              files |-> {x \in dk.files : ~Within(x.path, d)}]
  ELSE dk

\* ---- steps of the handler
\* the request arrives: validation, defaultQueue.add, the task runs up to
\* `await mkdtemp`
Ask ==
  /\ run.pc = "received"
  /\ IF IsBlank(body.prompt)
     THEN /\ run' = [run EXCEPT !.pc = "done"]
          /\ response' = [NoBody EXCEPT !.status = 400, !.hasError = TRUE,
                                        !.error = PromptMessage]
     ELSE /\ run' = [run EXCEPT !.pc = "mkdtemp", !.prompt = body.prompt]
          /\ UNCHANGED response
  /\ UNCHANGED <<impl, body, disk>>
  /\ UNCHANGED queueVars
  /\ UNCHANGED boot

\* mkdtemp returns the new directory
DirCreated(sp) ==
  /\ run.pc = "mkdtemp"
  /\ LET l == [run EXCEPT !.tempDir = OwnDir] IN
     /\ disk' = [disk EXCEPT !.dirs = @ \cup {OwnDir}]
     /\ Finish(IF Attachments(impl, body) # <<>>
               THEN [l EXCEPT !.pc = "write"]
               ELSE Launch(impl, body, l, disk.files, sp))
  /\ UNCHANGED <<impl, body>>
  /\ UNCHANGED queueVars
  /\ UNCHANGED boot

\* mkdtemp fails
DirNotCreated ==
  /\ run.pc = "mkdtemp"
  /\ Finish(Cleanup(run, WithData(FsError(1, "mkdtemp"), "", "",
                                  MkdtempMessage)))
  /\ UNCHANGED <<impl, body, disk>>
  /\ UNCHANGED queueVars
  /\ UNCHANGED boot

\* (variant: the loop over the attachments ends after the first write)
MoreToWrite_Never(l, fl) == FALSE

\* `for (const file of files)`: attachments are still to be written
MoreToWrite(l, fl) == l.attempted < Len(fl)

\* writeFile of the next attachment returns; after the last one the prompt
\* is rewritten and execa is called
FileWritten(sp) ==
  /\ run.pc = "write"
  /\ LET fl    == Attachments(impl, body)
         f     == fl[run.attempted + 1]
         path  == Join(run.tempDir, f.fileName)
         bytes == Base64Decode(f.data)
         now   == WriteFile(disk.files, path, bytes)
         l     == [run EXCEPT !.attempted = @ + 1,
                     !.written = Append(@, [path |-> path,
                                            bytes |-> bytes])] IN
     /\ Parent(path) \in disk.dirs
     /\ disk' = [disk EXCEPT !.files = now]
     /\ Finish(IF MoreToWrite(l, fl) THEN l
               ELSE Launch(impl, body,
                           [l EXCEPT !.prompt = Augmented(impl, @, fl)],
                           now, sp))
  /\ UNCHANGED <<impl, body>>
  /\ UNCHANGED queueVars
  /\ UNCHANGED boot

\* writeFile of the next attachment fails
FileNotWritten ==
  /\ run.pc = "write"
  /\ Finish(Cleanup([run EXCEPT !.attempted = @ + 1],
                    WithData(FsError(1, "write"), "", "", WriteMessage)))
  /\ UNCHANGED <<impl, body, disk>>
  /\ UNCHANGED queueVars
  /\ UNCHANGED boot

\* the tool exits with `code`, having printed out and err
ToolExits(code, out, err) ==
  /\ run.proc = "running"
  /\ Finish(ToolEnds(impl, [run EXCEPT !.proc = "exited", !.code = code,
                                       !.out = out, !.err = err],
                     WithData(ExecaExit(1, code), out, err,
                              IF code = 0 THEN "" ELSE ExitMessage)))
  /\ UNCHANGED <<impl, body, disk>>
  /\ UNCHANGED queueVars
  /\ UNCHANGED boot

\* the timeout elapses and the tool is killed, having printed out and err
ToolTimesOut(out, err) ==
  /\ run.proc = "running"
  /\ Finish(ToolEnds(impl, [run EXCEPT !.proc = "killed",
                                       !.out = out, !.err = err],
                     WithData(TimeoutError(1), out, err, TimeoutMessage)))
  /\ UNCHANGED <<impl, body, disk>>
  /\ UNCHANGED queueVars
  /\ UNCHANGED boot

\* rm returns, successfully or not
RmReturns(ok) ==
  /\ run.rm = "pending"
  /\ disk' = RmTree(disk, run.tempDir, ok)
  /\ Finish([run EXCEPT !.rm = IF ok THEN "ok" ELSE "failed",
                        !.outcome = AfterCleanup(@, ok)])
  /\ UNCHANGED <<impl, body>>
  /\ UNCHANGED queueVars
  /\ UNCHANGED boot

\* ---- the requests explored
Prompts == {<<"ping">>, <<" ">>}
FileNames == {<<"a.txt">>, <<"..", "a.txt">>, <<"..", "gemini-2", "a.txt">>}
\* "aGk=" (hi), "aGE=" (ha), and "aG!k=", which is not base64
Datas == {<<26, 6, 36, Pad>>, <<26, 6, 4, Pad>>, <<26, 6, Junk, 36, Pad>>}
ArgLists == {<<>>, << <<"--yolo">> >>}
FileLists ==
  UNION {[1..n -> [fileName : FileNames, data : Datas]] :
           n \in 0..MaxAttachments}
Bodies ==
  {[prompt |-> p, hasFiles |-> TRUE, files |-> fl, args |-> a] :
     p \in Prompts, fl \in FileLists, a \in ArgLists}
  \cup {[prompt |-> p, hasFiles |-> FALSE, files |-> <<>>, args |-> a] :
          p \in Prompts, a \in ArgLists}

NoRequest ==
  /\ impl = "none"
  /\ body = [prompt |-> <<>>, hasFiles |-> FALSE, files |-> <<>>,
             args |-> <<>>]
  /\ run = NoRun
  /\ disk = [dirs |-> {TmpDir}, files |-> {}]
  /\ response = NoBody

InitData ==
  /\ impl \in Impls
  /\ route = RouteOf(impl)
  /\ concurrency = 1
  /\ queue = <<>> /\ slots = {} /\ inv = [r \in Reqs |-> Idle]
  /\ fs = {} /\ last = NoLast
  /\ body \in Bodies
  /\ run = NoRun
  /\ disk = [dirs |-> {TmpDir, OtherDir}, files |-> {}]
  /\ response = NoBody
  /\ boot = NoBoot

NextData ==
  \/ Ask
  \/ \E sp \in Spawns : DirCreated(sp)
  \/ DirNotCreated
  \/ \E sp \in Spawns : FileWritten(sp)
  \/ FileNotWritten
  \/ \E c \in ToolExitCodes, out \in Stdouts, err \in Stderrs :
       ToolExits(c, out, err)
  \/ \E out \in Stdouts, err \in Stderrs : ToolTimesOut(out, err)
  \/ \E ok \in BOOLEAN : RmReturns(ok)

SpecData == InitData /\ [][NextData]_vars

Init ==
  /\ route \in Routes
  /\ concurrency \in 1..MaxConcurrency
  /\ queue = <<>>
  /\ slots = {}
  /\ inv = [r \in Reqs |-> Idle]
  /\ fs = {}
  /\ last = NoLast
  /\ NoRequest
  /\ boot = NoBoot

Next ==
  \/ \E r \in Reqs, n \in 0..MaxFiles :
       (route = "packages" => n = 0) /\ Submit(r, n)
  \/ \E r \in Reqs : BadPrompt(r)
  \/ \E r \in Reqs, d \in DirNames, sp \in Spawns : MkdtempOk(r, d, sp)
  \/ \E r \in Reqs : MkdtempFail(r)
  \/ \E r \in Reqs, sp \in Spawns : WriteOk(r, sp)
  \/ \E r \in Reqs : WriteFail(r)
  \/ \E r \in Reqs, c \in ToolExitCodes : ProcExit(r, c)
  \/ \E r \in Reqs : Timeout(r)
  \/ \E r \in Reqs, ok \in BOOLEAN : RmReturn(r, ok)

Spec == Init /\ [][Next]_vars

\* ---- the same program with its environment answering: for every request,
\* an awaited filesystem call returns and a running tool process exits or
\* reaches its timeout
Advance(r) ==
  \/ \E d \in DirNames, sp \in Spawns : MkdtempOk(r, d, sp)
  \/ MkdtempFail(r)
  \/ \E sp \in Spawns : WriteOk(r, sp)
  \/ WriteFail(r)
  \/ \E c \in ToolExitCodes : ProcExit(r, c)
  \/ Timeout(r)
  \/ \E ok \in BOOLEAN : RmReturn(r, ok)

\* the requests sent while progress is examined
MaxLive == 2
LiveReqs == 1..MaxLive

NextLive ==
  \/ \E r \in LiveReqs, n \in 0..MaxFiles :
       (route = "packages" => n = 0) /\ Submit(r, n)
  \/ \E r \in LiveReqs : BadPrompt(r)
  \/ \E r \in LiveReqs : Advance(r)

\* fewer slots than requests, so that a request has to wait for a slot
InitLive == Init /\ concurrency < MaxLive

SpecLive ==
  InitLive /\ [][NextLive]_vars /\ \A r \in LiveReqs : WF_vars(Advance(r))

\* ---- the start of the process, from the load of the configuration to the
\* server listening
InitStartup ==
  /\ boot \in {Boot(e, a, v) : e \in EntryPoints, a \in Argvs, v \in Envs}
  /\ route = (IF boot.entry = "cli" THEN "packages" ELSE "modules")
  /\ concurrency = defaultQueue
  /\ queue = <<>>
  /\ slots = {}
  /\ inv = [r \in Reqs |-> Idle]
  /\ fs \in SUBSET (StaleNames \cup OtherNames)
  /\ last = NoLast
  /\ NoRequest

NextStartup ==
  \/ \E ok \in BOOLEAN : Readdir(ok)
  \/ \E d \in StaleNames \cup OtherNames, ok \in BOOLEAN : OrphanRm(d, ok)
  \/ \E ok \in BOOLEAN : BuildApp(ok)
  \/ \E ok \in BOOLEAN : Listen(ok)

SpecStartup == InitStartup /\ [][NextStartup]_vars

\* ---- the start of the process followed by the first request: the default
\* configuration, either entry point
\* (variant: requests are served from the moment the process is loaded)
Accepting_FromLoad(b) == b.pc \notin {"off", "exited"}

\* requests reach the handler once app.listen has returned
Accepting(b) == b.pc = "listening"

InitServe ==
  /\ InitStartup
  /\ boot.argv = NoBoot.argv
  /\ boot.env = NoBoot.env

\* the request followed after the start: the first one
Served == {1}

NextServe ==
  \/ NextStartup
  \/ \E r \in Served, n \in 0..MaxFiles :
       Accepting(boot) /\ (route = "packages" => n = 0) /\ Submit(r, n)
  \/ \E r \in Served : Accepting(boot) /\ BadPrompt(r)
  \/ \E r \in Served, d \in DirNames, sp \in Spawns :
       Accepting(boot) /\ MkdtempOk(r, d, sp)
  \/ \E r \in Served : Accepting(boot) /\ MkdtempFail(r)
  \/ \E r \in Served, sp \in Spawns : Accepting(boot) /\ WriteOk(r, sp)
  \/ \E r \in Served : Accepting(boot) /\ WriteFail(r)
  \/ \E r \in Served, c \in ToolExitCodes :
       Accepting(boot) /\ ProcExit(r, c)
  \/ \E r \in Served : Accepting(boot) /\ Timeout(r)
  \/ \E r \in Served, ok \in BOOLEAN : Accepting(boot) /\ RmReturn(r, ok)

SpecServe == InitServe /\ [][NextServe]_vars

TypeOK ==
  /\ route \in Routes
  /\ concurrency \in 1..MaxConcurrency
  /\ slots \subseteq Reqs
  /\ fs \subseteq DirNames
  /\ \A r \in Reqs :
       /\ inv[r].pc \in {"idle", "queued", "mkdtemp", "write", "exec", "rm",
                         "awaitProc", "done"}
       /\ inv[r].tempDir \in DirNames \cup {NoDir}
       /\ inv[r].proc \in {"none", "running", "exited", "killed", "failed"}
       /\ inv[r].rmResult \in {"none", "ok", "failed"}

\* ------------------------------------------------------------------ claims
InTask == {"mkdtemp", "write", "exec", "rm", "awaitProc"}
Running == {r \in Reqs : inv[r].proc = "running"}
Waiting == {queue[i] : i \in 1..Len(queue)}
\* the answer just sent belongs to a request that was admitted
Accepted == last.req # 0 /\ last.reply.status # 400

\* C1: at every instant at most `concurrency` gemini processes are running
\* and at most `concurrency` jobs hold a slot; a request that found no free
\* slot is kept in the queue, and every accepted request that is answered
\* was run by the queue first (none is turned away for lack of a slot).
C1_ConcurrencyBound ==
  /\ Cardinality(Running) <= concurrency
  /\ Cardinality(slots) <= concurrency
  /\ \A r \in Reqs : inv[r].pc = "queued" => r \in Waiting
  /\ Accepted => last.inv.mkdtempCalls = 1

\* more requests than slots: all slots run a process, one request waits
C1_Witness ==
  /\ queue # <<>>
  /\ Cardinality(Running) = concurrency
  /\ Cardinality(Running) + Len(queue) > concurrency

\* C2 as stated: every accepted invocation that has ended created exactly
\* one directory and performed exactly one removal.
C2_Original ==
  Accepted => last.inv.created = 1 /\ last.inv.rmCalls = 1

\* C2 amended: every accepted invocation calls mkdtemp exactly once; when
\* that succeeds, one directory is created and exactly one rm of that same
\* directory is performed whatever the outcome; when it fails, no directory
\* is created and no rm is performed.
C2_OneCreationOneRemoval ==
  /\ \A r \in Reqs :
       /\ inv[r].mkdtempCalls <= 1
       /\ inv[r].created <= inv[r].mkdtempCalls
       /\ inv[r].rmCalls <= inv[r].created
       /\ inv[r].pc = "rm" =>
            inv[r].rmCalls = 1 /\ inv[r].rmArg = inv[r].tempDir
       /\ inv[r].pc = "awaitProc" => inv[r].rmCalls = 1
  /\ Accepted =>
       /\ last.inv.mkdtempCalls = 1
       /\ last.inv.created = IF last.inv.outcome.what = "mkdtemp" THEN 0
                             ELSE 1
       /\ last.inv.rmCalls = last.inv.created
       /\ last.inv.rmCalls = 1 => last.inv.rmResult # "none"

\* an invocation that failed in mid-flight (attachment write) has ended
\* with one directory created and one rm performed
C2_Witness ==
  /\ Accepted
  /\ last.inv.outcome.what = "write"
  /\ last.inv.created = 1
  /\ last.inv.rmCalls = 1

\* C3: no gemini process is running while the working directory of its
\* invocation has already been removed by rm.
C3_NoRemovalWhileRunning ==
  \A r \in Reqs : ~(inv[r].proc = "running" /\ inv[r].rmResult = "ok")

\* C4: a failing rm never becomes the outcome: when rm returns, with or
\* without an error, the pending outcome of the task is kept (and is what
\* the reply is built from when the task settles in that step), and no
\* answer ever carries the cleanup error.
C4_CleanupFailureIsNotTheOutcome ==
  /\ [](last.req # 0 => last.inv.outcome.what # "rm")
  /\ [][\A r \in Reqs :
          inv[r].pc = "rm" /\ inv'[r].pc # "rm" =>
            IF inv'[r].pc = "done"
            THEN last'.req = r /\ last'.reply = Reply(inv[r].outcome)
            ELSE inv'[r].outcome = inv[r].outcome]_vars

\* rm failed and the caller still got the successful result
C4_Witness ==
  /\ last.req # 0
  /\ last.inv.rmResult = "failed"
  /\ last.reply.status = 200
  /\ ~last.reply.error

\* C5: when the timeout elapses on a running gemini process, the process is
\* sent SIGTERM, its request is answered with a failure result (an error
\* message and a non-zero exit code), and rm of the working directory is
\* called after the process has ended and has returned before the answer.
C5_TimeoutFailsThenCleanup ==
  /\ \A r \in Reqs : inv[r].proc = "killed" => inv[r].signal = KillSignal
  /\ last.req # 0 /\ last.inv.proc = "killed" =>
       /\ last.inv.signal = KillSignal
       /\ last.reply.status = 200
       /\ last.reply.error
       /\ last.reply.hasExit /\ last.reply.exitCode # 0
       /\ last.inv.rmCalls = 1
       /\ last.inv.rmResult # "none"
       /\ ~last.inv.rmEarly

\* C6: requests are numbered in the order they are submitted.  The queue
\* holds the waiting requests in that order; a request waits only while no
\* request submitted after it has been started; a waiting request is
\* started only from the head of the queue; and a submission changes
\* neither the handler state nor the slot of any job that is running.
C6_FifoStart ==
  /\ [](\A i, j \in 1..Len(queue) : i < j => queue[i] < queue[j])
  /\ [](\A a, b \in Reqs :
          a < b /\ inv[a].pc = "queued" => inv[b].pc \notin InTask)
  /\ [][\A r \in Reqs :
          inv[r].pc = "queued" /\ inv'[r].pc # "queued" =>
            r = Head(queue) /\ inv'[r].pc = "mkdtemp" /\ r \in slots']_vars
  /\ [][(\E x \in Reqs : inv[x].pc = "idle"
                         /\ inv'[x].pc \in {"queued", "mkdtemp"}) =>
          \A r \in slots : r \in slots' /\ inv'[r] = inv[r]]_vars

\* two requests had to wait; the one submitted first has just been started
\* and the other one is still waiting
C6_Witness ==
  /\ last.req # 0
  /\ \E a, b \in Reqs :
       a < b /\ last.next = {a} /\ inv[a].pc = "mkdtemp" /\ queue = <<b>>

\* C7: an answer is built from the outcome of the task of the request it
\* answers; when a task fails, the failure is answered to its own request
\* and no other request is answered in that step, its slot is given back
\* and the head of the queue is started in the same step; slots are held
\* by unfinished tasks only, and requests wait only while all slots are
\* taken.
C7_FailureFreesSlot ==
  /\ [](last.req # 0 => last.reply.of = last.req)
  /\ [](slots \subseteq {r \in Reqs : inv[r].pc \in InTask})
  /\ [](queue # <<>> => Cardinality(slots) = concurrency)
  /\ [][\A r \in slots :
          inv'[r].pc = "done" /\ last'.inv.outcome.kind = "error" =>
            /\ last'.req = r /\ last'.reply.error
            /\ last'.reply = Reply(last'.inv.outcome)
            /\ r \notin slots'
            /\ \A x \in Reqs \ {r} : inv'[x].pc = "done" => inv[x].pc = "done"
            /\ queue # <<>> =>
                 Head(queue) \in slots' /\ inv'[Head(queue)].pc = "mkdtemp"
          ]_vars

\* a task has just failed, its request got the failure, and the request
\* that was waiting has taken over the slot
C7_Witness ==
  /\ last.req # 0
  /\ last.inv.outcome.kind = "error"
  /\ last.reply.error
  /\ last.next # {}
  /\ last.next \subseteq slots
  /\ last.req \notin slots

\* C8: a job holds its slot at every step of its task body (mkdtemp,
\* attachment writes, the run of gemini, rm); when the slot is given back
\* the gemini process is not running any more and, if a directory was
\* created, rm has been called and has returned.
C8_SlotHeldThroughCleanup ==
  /\ [](\A r \in Reqs : inv[r].pc \in InTask => r \in slots)
  /\ [][\A r \in slots :
          r \notin slots' =>
            /\ last'.req = r
            /\ last'.inv.pc = "settled"
            /\ last'.inv.proc # "running"
            /\ last'.inv.created = 1 =>
                 last'.inv.rmCalls = 1 /\ last'.inv.rmResult # "none"
          ]_vars

\* rm is in progress, its job holds the slot and another request waits
C8_Witness ==
  \E r \in Reqs : inv[r].pc = "rm" /\ r \in slots /\ queue # <<>>

\* directories that exist and are the working directory of a job in flight
HeldDirs == {d \in fs : \E r \in Reqs : inv[r].pc \in InTask
                                       /\ inv[r].tempDir = d}

\* C9 as stated: the number of existing working directories never exceeds
\* the concurrency, directories whose removal failed included.
C9_Original == Cardinality(fs) <= concurrency

\* C9 amended: the number of existing directories that are the working
\* directory of a job in flight never exceeds the concurrency; a directory
\* is created only for a job holding a slot; and a directory is still there
\* when rm has returned only if that rm failed.
C9_HeldDirectoriesBounded ==
  /\ [](Cardinality(HeldDirs) <= concurrency)
  /\ [][\A d \in fs' \ fs :
          \E r \in slots : inv[r].pc = "mkdtemp" /\ inv[r].tempDir = NoDir
                           /\ (inv'[r].tempDir = d \/ last'.req = r)]_vars
  /\ [][\A r \in Reqs :
          inv[r].pc = "rm" /\ inv'[r].pc # "rm" /\ inv[r].rmArg \in fs' =>
            IF inv'[r].pc = "done" THEN last'.inv.rmResult = "failed"
            ELSE inv'[r].rmResult = "failed"]_vars

\* removals have failed: more directories exist than there are slots,
\* while every slot's job has its own existing directory
C9_Witness ==
  /\ Cardinality(fs) > concurrency
  /\ Cardinality(HeldDirs) = concurrency

\* C10: every working directory carries the prefix 'gemini-', and no two
\* jobs in flight have the same working directory.
C10_NoSharedDirectory ==
  /\ \A r \in Reqs : inv[r].tempDir # NoDir => inv[r].tempDir[1] = Prefix
  /\ \A a, b \in Reqs :
       a # b /\ inv[a].pc \in InTask /\ inv[b].pc \in InTask
             /\ inv[a].tempDir # NoDir => inv[a].tempDir # inv[b].tempDir

\* C29: provided filesystem calls return and tool processes end, every
\* request that was admitted to the queue, waiting or started, is
\* eventually answered; a request is answered in the step that ends its
\* handler and never again, and an admitted request is answered with the
\* result of its job (status 200 or 500).
C29_EveryAcceptedIsAnswered ==
  /\ \A r \in Reqs :
       (inv[r].pc \in InTask \cup {"queued"}) ~> (inv[r].pc = "done")
  /\ [][\A r \in Reqs :
          /\ (inv[r].pc = "done" => inv'[r].pc = "done" /\ last'.req # r)
          /\ (inv[r].pc # "done" /\ inv'[r].pc = "done" =>
                last'.req = r /\ last'.reply.of = r)
          /\ (inv[r].pc \in InTask /\ inv'[r].pc = "done" =>
                last'.reply.status \in {200, 500})]_vars

C29_Witness ==
  /\ \A r \in LiveReqs : inv[r].pc = "done"
  /\ last.inv.mkdtempCalls = 1
  /\ Accepted
  /\ \E d \in fs : TRUE

\* C30: the counters of the queue are consistent.  The jobs started and not
\* settled are between 0 and the concurrency in number and are exactly the
\* requests inside their task; the queue holds exactly the requests waiting,
\* each once; a slot is taken only by a request that starts its task and
\* given back only by the request that is answered; when no request is
\* waiting or in its task, no slot is taken and the queue is empty.
C30_CountersConsistent ==
  /\ [](Cardinality(slots) \in 0..concurrency)
  /\ [](slots = {r \in Reqs : inv[r].pc \in InTask})
  /\ [](/\ Waiting = {r \in Reqs : inv[r].pc = "queued"}
        /\ Len(queue) = Cardinality(Waiting))
  /\ []((\A r \in Reqs : inv[r].pc \in {"idle", "done"}) =>
          slots = {} /\ queue = <<>>)
  /\ [][\A r \in Reqs :
          /\ (r \in slots' \ slots =>
                inv[r].pc \in {"idle", "queued"} /\ inv'[r].pc = "mkdtemp")
          /\ (r \in slots \ slots' =>
                inv'[r].pc = "done" /\ last'.req = r)]_vars

C30_Witness ==
  /\ \A r \in Reqs : inv[r].pc = "done"
  /\ slots = {} /\ queue = <<>>
  /\ last.reply.status = 200 /\ last.inv.rmResult = "ok"

\* C31: the queue is work-conserving: whenever a request waits for a slot,
\* every slot is taken by a request that is inside its task; no request
\* waits while a slot is free.
C31_WorkConserving ==
  queue # <<>> =>
    /\ Cardinality(slots) = concurrency
    /\ \A r \in slots : inv[r].pc \in InTask

C31_Witness ==
  /\ queue # <<>>
  /\ concurrency = MaxConcurrency
  /\ Cardinality(slots) = MaxConcurrency
  /\ Cardinality(Running) = MaxConcurrency

\* C32: the timeout is the only cancellation and it applies to the tool run
\* alone: a request waiting for a slot has no process, no outcome and no
\* signal, and the only thing that ever happens to it is that its task is
\* started; a process is killed only while it is running, and an answer
\* that reports a timeout comes from a handler whose process was started
\* and killed with the kill signal.
C32_TimeoutOnlyOnToolRun ==
  /\ [](\A r \in Reqs :
          inv[r].pc = "queued" =>
            /\ inv[r].proc = "none" /\ inv[r].signal = "none"
            /\ inv[r].outcome = NoOutcome)
  /\ [](last.inv.outcome.what = "timeout" =>
          last.inv.proc = "killed" /\ last.inv.signal = KillSignal)
  /\ [][\A r \in Reqs :
          /\ (inv[r].pc = "queued" => inv'[r].pc \in {"queued", "mkdtemp"})
          /\ (inv'[r].signal # inv[r].signal =>
                inv[r].proc = "running" \/ inv'[r].pc = "done")
          /\ (inv'[r].proc = "killed" /\ inv[r].proc # "killed" =>
                inv[r].proc = "running")]_vars

C32_Witness ==
  /\ last.inv.outcome.what = "timeout"
  /\ last.inv.proc = "killed"
  /\ queue # <<>>

Sent == Files(body)
\* the attachments the serving handler reads from the request
Attached == Attachments(impl, body)
\* the tool has been started (execa has been called)
Started == run.call # NoCall

\* C11: every file written for an attachment lies inside the working
\* directory of the request: not in the scratch root, not in another
\* invocation's directory, nowhere else.
C11_WritesStayInside ==
  \A k \in 1..Len(run.written) :
    /\ Within(run.written[k].path, run.tempDir)
    /\ ~Within(run.written[k].path, OtherDir)
    /\ Parent(run.written[k].path) # TmpDir

\* C12: when the request has attachments and the tool is started, its
\* standard input is the reference line, '@' and the name of every
\* attachment in request order separated by single spaces, a blank line,
\* and the instruction; and for every attachment the file of that name in
\* the working directory holds its decoded bytes at that moment.
C12_AugmentedInput ==
  Started /\ Attached # <<>> =>
    /\ run.call.hasInput
    /\ run.call.input =
         <<FilesLine>> \o FileRefs(Attached) \o <<"\n\n">> \o body.prompt
    /\ \A k \in 1..Len(Attached) :
         [path |-> run.call.cwd \o Attached[k].fileName,
          bytes |-> Base64Decode(Attached[k].data)] \in run.call.seen

\* C13: when the request has no attachments (absent or empty list) and the
\* tool is started, its standard input is exactly the instruction, and no
\* file has been written.
C13_PlainInput ==
  Started /\ Sent = <<>> =>
    /\ run.call.hasInput
    /\ run.call.input = body.prompt
    /\ run.attempted = 0
    /\ run.call.seen = {}

\* C14: whatever the request, the tool is started as 'gemini' with the
\* arguments ['--sandbox'] and gets the instruction on standard input.
C14_FixedCommandLine ==
  Started =>
    /\ run.call.file = "gemini"
    /\ run.call.args = << <<"--sandbox">> >>
    /\ run.call.hasInput

\* C15: when the tool has exited with code 0, the response is a result
\* (status 200) whose output is the tool's standard output and whose
\* exitCode is 0; it has a stderr field, holding the tool's standard error,
\* exactly when that is not empty; it has no error field.
C15_SuccessResult ==
  run.pc = "done" /\ run.proc = "exited" /\ run.code = 0 =>
    /\ response.status = 200
    /\ response.hasOutput /\ response.output = run.out
    /\ response.hasExitCode /\ response.exitCode = 0
    /\ response.hasStderr <=> run.err # ""
    /\ response.hasStderr => response.stderr = run.err
    /\ ~response.hasError

\* the tool printed to both streams and exited with 0; both are reported
C15_Witness ==
  /\ run.pc = "done" /\ run.proc = "exited" /\ run.code = 0
  /\ run.out = "pong" /\ run.err = "warning"
  /\ response.output = "pong" /\ response.hasStderr

\* C16: when the tool has exited with a code c other than 0, the response
\* is a result (status 200) with exitCode c, the tool's standard output as
\* output, its standard error as stderr when there is any, and a non-empty
\* error message.
C16_FailureResult ==
  run.pc = "done" /\ run.proc = "exited" /\ run.code # 0 =>
    /\ response.status = 200
    /\ response.hasExitCode /\ response.exitCode = run.code
    /\ response.hasOutput /\ response.output = run.out
    /\ run.err # "" => response.hasStderr /\ response.stderr = run.err
    /\ response.hasError /\ response.error # ""

\* the tool exited with 127 after writing to stderr
C16_Witness ==
  /\ run.pc = "done" /\ run.proc = "exited" /\ run.code = 127
  /\ run.err = "warning"
  /\ response.status = 200 /\ response.exitCode = 127
  /\ response.stderr = "warning"

\* C17: when the tool cannot be started, the response is an unexpected
\* failure (status 500 with nothing but the error message), never a result
\* with output and exit code; rm of the working directory has been called
\* and has returned.
C17_StartFailureIsRaised ==
  run.pc = "done" /\ run.proc = "failed" =>
    /\ response.status = 500
    /\ ~response.hasOutput /\ ~response.hasExitCode /\ ~response.hasStderr
    /\ response.hasError /\ response.error = StartMessage
    /\ run.rm \in {"ok", "failed"}

\* C18: when mkdtemp fails, execa is never called, writeFile is never
\* called, rm is never called, and the response is an unexpected failure
\* (status 500) with the message of the mkdtemp error and nothing else.
C18_CreationFailureFailsFast ==
  /\ run.tempDir = NoDir =>
       ~Started /\ run.attempted = 0 /\ run.rm = "none" /\ disk.files = {}
  /\ run.pc = "done" /\ run.outcome.base.what = "mkdtemp" =>
       /\ run.tempDir = NoDir
       /\ response.status = 500
       /\ response.hasError /\ response.error = MkdtempMessage
       /\ ~response.hasOutput /\ ~response.hasExitCode
       /\ ~response.hasStderr

\* a request with attachments whose mkdtemp failed has been answered
C18_Witness ==
  /\ run.pc = "done" /\ run.outcome.base.what = "mkdtemp"
  /\ Sent # <<>>
  /\ response.status = 500 /\ ~Started /\ run.attempted = 0

\* C19: when the writeFile of an attachment fails, no further attachment
\* is written, execa is never called, rm of the working directory is
\* called and has returned before the answer (removing the attachments
\* written so far when it succeeds), and the answer is an unexpected
\* failure (status 500), not a result.
C19_WriteFailureAborts ==
  run.outcome.base.what = "write" =>
    /\ ~Started
    /\ Len(run.written) = run.attempted - 1
    /\ run.rm # "none"
    /\ run.pc = "done" =>
         /\ run.rm \in {"ok", "failed"}
         /\ run.rm = "ok" =>
              /\ run.tempDir \notin disk.dirs
              /\ \A x \in disk.files : ~Within(x.path, run.tempDir)
         /\ response.status = 500
         /\ response.hasError /\ response.error = WriteMessage
         /\ ~response.hasOutput /\ ~response.hasExitCode

\* the second attachment could not be written: the first one was, and the
\* directory with it has been removed
C19_Witness ==
  /\ run.pc = "done" /\ run.outcome.base.what = "write"
  /\ run.attempted = 2 /\ Len(run.written) = 1
  /\ Within(run.written[1].path, run.tempDir)
  /\ run.rm = "ok" /\ run.tempDir \notin disk.dirs
  /\ response.status = 500

\* C20: when the data of an attachment is not base64, the invocation
\* aborts: the attachment is not written, the tool is not started, and the
\* answer is a failure.
C20_MalformedDataAborts ==
  \A k \in 1..Len(Attached) :
    ~IsBase64(Attached[k].data) =>
      /\ Len(run.written) < k
      /\ ~Started
      /\ run.pc = "done" => response.status # 200

\* C21: within one invocation the working directory is created first, every
\* attachment is written next and the tool is started last: a started tool
\* has its working directory and finds every attachment of its request
\* written, an attachment is only ever written into a directory that was
\* created, and no write is attempted after the tool has been started.
C21_WritesBeforeStart ==
  /\ [](Started => /\ run.tempDir # NoDir
                    /\ run.call.cwd = run.tempDir
                    /\ run.attempted = Len(Attached)
                    /\ Len(run.written) = Len(Attached))
  /\ [](run.attempted > 0 => run.tempDir # NoDir)
  /\ [][/\ (run'.attempted # run.attempted => ~Started)
        /\ (Started' /\ ~Started =>
              /\ run.tempDir # NoDir \/ Attached = <<>>
              /\ run'.attempted = Len(Attached)
              /\ Len(run'.written) = Len(Attached))
        /\ (run'.tempDir # run.tempDir =>
              run.attempted = 0 /\ ~Started)]_vars

C21_Witness ==
  /\ Started
  /\ Len(Attached) = MaxAttachments
  /\ Len(run.written) = MaxAttachments
  /\ run.proc = "running"

C33_PlainFailureIsServerError ==
  /\ run.pc = "done"
  /\ run.outcome.base.kind = "error"
  /\ run.outcome.base.what \in {"mkdtemp", "write", "start"}
  /\ ~run.outcome.base.hasCode
  => /\ response.status = 500
     /\ response.hasError /\ response.error = run.outcome.message
     /\ ~response.hasOutput /\ ~response.hasExitCode /\ ~response.hasStderr

\* C34: a result that carries an error field has a non-zero exit code: it
\* is the exit code of the tool when the tool exited with one other than 0,
\* and 1 when the failure has no exit code (the tool was killed at the
\* timeout, or never ran).
C34_ErrorResultHasExitCode ==
  response.hasError /\ response.hasExitCode =>
    /\ response.exitCode # 0
    /\ run.pc = "done"
    /\ response.exitCode =
         (IF run.proc = "exited" /\ run.code # 0 THEN run.code
          ELSE FallbackExitCode)

C34_Witness ==
  /\ run.pc = "done" /\ run.proc = "killed"
  /\ response.hasError /\ response.hasExitCode
  /\ response.exitCode = FallbackExitCode
  /\ response.error = TimeoutMessage

\* ------------------------------------------------- claims on the startup
\* the gemini- entries in the scratch root
Leftovers == {e \in fs : StartsWith(e, Prefix)}
\* cleanupOrphanedDirectories has returned
PassOver == boot.pass \in {"completed", "failed"}
\* the server accepts requests
Listening == boot.pc = "listening"
\* x is an integer of at least 1
IsPositiveInteger(x) == ~x.nan /\ x.n >= 1

\* C23: whichever entry point starts the server, the clean-up pass has run
\* and all its removal attempts have returned when the server listens.
C23_CleanupBeforeListening ==
  Listening => PassOver /\ boot.pending = {}

\* C24 as stated: after a pass in which no removal failed, no entry whose
\* name starts with the prefix is left in the scratch root.
C24_Original ==
  PassOver /\ boot.failed = {} => Leftovers = {}

\* C24: when the scratch root could be listed, rm is called on exactly the
\* entries whose name starts with the prefix, and on none when there is no
\* such entry; only such entries are ever removed; after a pass that could
\* list the root and in which no removal failed, no such entry is left.
\* When the listing failed no removal is attempted.
C24_CleanupRemovesListed ==
  /\ [](boot.pass = "completed" /\ boot.failed = {} => Leftovers = {})
  /\ [](boot.pass = "failed" => boot.attempted = {})
  /\ [][boot.pc = "readdir" /\ boot'.pass # "failed" =>
          /\ boot'.attempted = Leftovers
          /\ (Leftovers = {} => boot'.pass = "completed")]_vars
  /\ [][fs' # fs => \E d \in boot.attempted :
                      StartsWith(d, Prefix) /\ fs' = fs \ {d}]_vars

C24_Witness ==
  /\ boot.pass = "completed" /\ boot.failed = {}
  /\ Cardinality(boot.attempted) = MaxStale
  /\ fs # {}

\* C25: a removal that fails and a listing that fails are contained in the
\* pass: every other removal is still carried out (an attempted entry is
\* awaiting its rm, or its rm failed, or it is gone, and the pass is over
\* only when every rm has returned), the pass is always followed by
\* buildApp, and the process only exits at startup for an error of
\* buildApp or listen.
C25_CleanupFailuresContained ==
  /\ [](boot.pc = "exited" => boot.threw \in {"buildApp", "listen"})
  /\ [](\A d \in boot.attempted :
          d \in boot.pending \/ d \in boot.failed \/ d \notin fs)
  /\ [](PassOver => boot.pending = {})
  /\ [][boot.pc \in {"readdir", "rm"} => boot'.pc \in {"rm", "build"}]_vars
  /\ [][boot.pc = "rm" /\ boot'.pc = "rm" =>
          /\ boot'.pending \subseteq boot.pending
          /\ Cardinality(boot.pending \ boot'.pending) = 1]_vars

C25_Witness ==
  /\ Listening
  /\ boot.failed # {}
  /\ boot.attempted \ boot.failed # {}

\* C26: the queue of a listening server admits as many jobs at a time as
\* the configured maximum says.
C26_ConfiguredConcurrencyEnforced ==
  Listening /\ IsPositiveInteger(boot.config.maxConcurrentRequests) =>
    concurrency = boot.config.maxConcurrentRequests.n

\* C27: the deadline given to the tool process is the configured timeout.
C27_ConfiguredTimeoutEnforced ==
  Listening /\ IsPositiveInteger(boot.config.requestTimeout) =>
    ExecaTimeout = boot.config.requestTimeout.n

\* C28: a server whose configured maximum concurrency is not a positive
\* integer never gets to listen.
C28_InvalidConcurrencyRejected ==
  Listening => IsPositiveInteger(boot.config.maxConcurrentRequests)

\* C36: the clean-up pass leaves alone every entry of the scratch root whose
\* name does not start with 'gemini-': rm is only called on entries that
\* carry the prefix and were in the scratch root when it was listed, no rm
\* call is added after the listing, and an entry without the prefix that is
\* in the scratch root stays there.
C36_OtherEntriesUntouched ==
  /\ [](\A d \in boot.attempted : d[1] = Prefix)
  /\ [][/\ (boot'.attempted # boot.attempted =>
              boot.pc = "readdir" /\ boot'.attempted \subseteq fs)
        /\ \A e \in fs : e[1] # Prefix => e \in fs'
        /\ fs' \subseteq fs]_vars

C36_Witness ==
  /\ boot.pass = "completed"
  /\ Cardinality(boot.attempted) = MaxStale
  /\ boot.failed = {}
  /\ fs = OtherNames

\* C37: the clean-up pass never removes the working directory of an
\* invocation of its own process.  The pass runs at most once: once begun
\* it is never begun again.  A request is in its handler only while the
\* server listens with the pass, if there was one, over and no rm call of
\* it pending; what the pass removes is no directory a handler holds, and
\* the rm calls of the pass are made and return while no request has got
\* further than arriving.
C37_CleanupBeforeInvocations ==
  /\ [](boot.pc = "readdir" => boot.pass = "none")
  /\ [](\A r \in Reqs :
          inv[r].pc # "idle" =>
            /\ boot.pc = "listening"
            /\ boot.pass # "running" /\ boot.pending = {})
  /\ [][/\ (boot.pass # "none" =>
              boot'.pass # "none" /\ boot'.pc # "readdir")
        /\ (boot'.pending # boot.pending \/ boot'.attempted # boot.attempted
              => /\ \A r \in Reqs : inv[r].pc = "idle"
                 /\ \A r \in Reqs : inv[r].tempDir \notin fs \ fs')]_vars

C37_Witness ==
  /\ boot.pass = "completed"
  /\ Cardinality(boot.attempted) = MaxStale
  /\ boot.failed # {}
  /\ inv[1].proc = "running"
  /\ inv[1].tempDir \in fs

====
